---- MODULE Spec2Model ----
(***************************************************************************)
(* A model of src/src/lib.rs: the persistent Image (a width x height       *)
(* vector of Rgb cells), the generic UndoQueue with its three modes, and   *)
(* InternalState, the session object that ties the two together.           *)
(*                                                                         *)
(* Indices are 0-based as in the source; a TLA+ sequence is 1-based, so    *)
(* cell i of an image is img.cells[i + 1] and entry i of the queue is      *)
(* q.queue[i + 1].                                                         *)
(***************************************************************************)
EXTENDS Integers, Sequences, FiniteSets

(* Bounds of the model. MaxSize bounds a session: the cells of its grid     *)
(* plus the entries of its history. MaxStrokePushes is where the count of  *)
(* the pushes of one stroke stops.                                         *)
MaxSize == 5
MaxStrokePushes == 2

(* The colours a caller passes to brush: Vec<u8> values of three bytes,    *)
(* the default colour among them.                                          *)
Palette == { <<200, 200, 255>>, <<0, 0, 0>> }

(***************************************************************************)
(* struct Rgb and struct Image                                             *)
(***************************************************************************)
DefaultRgb == [r |-> 200, g |-> 200, b |-> 255]

Image_new(width, height) ==
    [ width  |-> width,
      height |-> height,
      cells  |-> [i \in 1..(width * height) |-> DefaultRgb] ]

RECURSIVE ConcatBytes(_)
ConcatBytes(vecs) ==
    IF vecs = << >> THEN << >> ELSE Head(vecs) \o ConcatBytes(Tail(vecs))

(* Image::cells that emits each cell as r, b, g. *)
Image_cells_blue_before_green(img) ==
    ConcatBytes([i \in 1..Len(img.cells) |->
                    << img.cells[i].r, img.cells[i].b, img.cells[i].g >>])

Image_cells(img) ==
    ConcatBytes([i \in 1..Len(img.cells) |->
                    << img.cells[i].r, img.cells[i].g, img.cells[i].b >>])

Image_width(img) == img.width

Image_height(img) == img.height

(* Option<Image>, plus the panic of an out-of-bounds self.cells[index]. *)
None == [tag |-> "None"]
Some(img) == [tag |-> "Some", image |-> img]
Panic == [tag |-> "Panic"]

BrushIndex(img, x, y) == y * img.width + x

RgbOf(color) == [r |-> color[1], g |-> color[2], b |-> color[3]]

(* Image::brush without the equality test of line 68. *)
Image_brush_always_some(img, x, y, color) ==
    LET index == BrushIndex(img, x, y)
        rgb   == RgbOf(color)
    IN  IF index >= Len(img.cells)
        THEN Panic
        ELSE Some([ width  |-> img.width,
                    height |-> img.height,
                    cells  |-> [img.cells EXCEPT ![index + 1] = rgb] ])

(* Image::brush that builds the new image with width and height swapped. *)
Image_brush_transposed(img, x, y, color) ==
    LET index == BrushIndex(img, x, y)
        rgb   == RgbOf(color)
    IN  IF index >= Len(img.cells)
        THEN Panic
        ELSE IF img.cells[index + 1] = rgb
             THEN None
             ELSE Some([ width  |-> img.height,
                         height |-> img.width,
                         cells  |-> [img.cells EXCEPT ![index + 1] = rgb] ])

Image_brush(img, x, y, color) ==
    LET index == BrushIndex(img, x, y)
        rgb   == RgbOf(color)
    IN  IF index >= Len(img.cells)
        THEN Panic
        ELSE IF img.cells[index + 1] = rgb
             THEN None
             ELSE Some([ width  |-> img.width,
                         height |-> img.height,
                         cells  |-> [img.cells EXCEPT ![index + 1] = rgb] ])

(***************************************************************************)
(* enum Mode and struct UndoQueue<T>                                       *)
(***************************************************************************)
Mode == {"Normal", "StartBlock", "InBlock"}

UndoQueue_new(entry) == [queue |-> <<entry>>, index |-> 0, mode |-> "Normal"]

UndoQueue_current(q) == q.queue[q.index + 1]

(* UndoQueue::start_undo_block that also drops the entries after the cursor. *)
UndoQueue_start_undo_block_truncates(q) ==
    [q EXCEPT !.mode = "StartBlock", !.queue = SubSeq(q.queue, 1, q.index + 1)]

UndoQueue_start_undo_block(q) == [q EXCEPT !.mode = "StartBlock"]

(* UndoQueue::close_undo_block that only leaves InBlock. *)
UndoQueue_close_undo_block_only_in_block(q) ==
    IF q.mode = "InBlock" THEN [q EXCEPT !.mode = "Normal"] ELSE q

UndoQueue_close_undo_block(q) == [q EXCEPT !.mode = "Normal"]

Truncate(s, n) == IF Len(s) > n THEN SubSeq(s, 1, n) ELSE s

(* UndoQueue::push whose InBlock arm appends like the other two. *)
UndoQueue_push_inblock_appends(q, entry) ==
    [ queue |-> Append(Truncate(q.queue, q.index + 1), entry),
      index |-> q.index + 1,
      mode  |-> IF q.mode = "Normal" THEN "Normal" ELSE "InBlock" ]

(* UndoQueue::push without the truncate of lines 118 and 124. *)
UndoQueue_push_no_truncate(q, entry) ==
    CASE q.mode = "Normal" ->
            [ queue |-> Append(q.queue, entry),
              index |-> q.index + 1,
              mode  |-> q.mode ]
      [] q.mode = "StartBlock" ->
            [ queue |-> Append(q.queue, entry),
              index |-> q.index + 1,
              mode  |-> "InBlock" ]
      [] q.mode = "InBlock" ->
            [q EXCEPT !.queue[q.index + 1] = entry]

(* UndoQueue::push without the index += 1 of line 120. *)
UndoQueue_push_keeps_cursor(q, entry) ==
    CASE q.mode = "Normal" ->
            [ queue |-> Append(Truncate(q.queue, q.index + 1), entry),
              index |-> q.index,
              mode  |-> q.mode ]
      [] q.mode = "StartBlock" ->
            [ queue |-> Append(Truncate(q.queue, q.index + 1), entry),
              index |-> q.index + 1,
              mode  |-> "InBlock" ]
      [] q.mode = "InBlock" ->
            [q EXCEPT !.queue[q.index + 1] = entry]

(* UndoQueue::push whose InBlock arm also drops the entries after the cursor. *)
UndoQueue_push_inblock_truncates(q, entry) ==
    CASE q.mode = "Normal" ->
            [ queue |-> Append(Truncate(q.queue, q.index + 1), entry),
              index |-> q.index + 1,
              mode  |-> q.mode ]
      [] q.mode = "StartBlock" ->
            [ queue |-> Append(Truncate(q.queue, q.index + 1), entry),
              index |-> q.index + 1,
              mode  |-> "InBlock" ]
      [] q.mode = "InBlock" ->
            [q EXCEPT !.queue = Append(SubSeq(q.queue, 1, q.index), entry)]

(* UndoQueue::push without the mode change of line 127. *)
UndoQueue_push_startblock_stays(q, entry) ==
    CASE q.mode = "Normal" ->
            [ queue |-> Append(Truncate(q.queue, q.index + 1), entry),
              index |-> q.index + 1,
              mode  |-> q.mode ]
      [] q.mode = "StartBlock" ->
            [ queue |-> Append(Truncate(q.queue, q.index + 1), entry),
              index |-> q.index + 1,
              mode  |-> q.mode ]
      [] q.mode = "InBlock" ->
            [q EXCEPT !.queue[q.index + 1] = entry]

UndoQueue_push(q, entry) ==
    CASE q.mode = "Normal" ->
            [ queue |-> Append(Truncate(q.queue, q.index + 1), entry),
              index |-> q.index + 1,
              mode  |-> q.mode ]
      [] q.mode = "StartBlock" ->
            [ queue |-> Append(Truncate(q.queue, q.index + 1), entry),
              index |-> q.index + 1,
              mode  |-> "InBlock" ]
      [] q.mode = "InBlock" ->
            [q EXCEPT !.queue[q.index + 1] = entry]

(* UndoQueue::undo without the guard of line 136. *)
UndoQueue_undo_unguarded(q) == [q EXCEPT !.index = q.index - 1]

(* UndoQueue::undo that also leaves the block. *)
UndoQueue_undo_leaves_block(q) ==
    IF q.index >= 1 THEN [q EXCEPT !.index = q.index - 1, !.mode = "Normal"] ELSE q

UndoQueue_undo(q) ==
    IF q.index >= 1 THEN [q EXCEPT !.index = q.index - 1] ELSE q

(* UndoQueue::redo with the guard of line 142 off by one, either way. *)
UndoQueue_redo_past_end(q) ==
    IF q.index < Len(q.queue) THEN [q EXCEPT !.index = q.index + 1] ELSE q

UndoQueue_redo_stops_short(q) ==
    IF q.index + 1 < Len(q.queue) - 1 THEN [q EXCEPT !.index = q.index + 1] ELSE q

UndoQueue_redo(q) ==
    IF q.index < Len(q.queue) - 1 THEN [q EXCEPT !.index = q.index + 1] ELSE q

(***************************************************************************)
(* struct InternalState: the session. Its only field is undo_queue.        *)
(***************************************************************************)
InternalState_new(width, height) == UndoQueue_new(Image_new(width, height))

InternalState_image(s) == UndoQueue_current(s)

InternalState_undo(s) == UndoQueue_undo(s)

InternalState_redo(s) == UndoQueue_redo(s)

InternalState_start_undo_block(s) == UndoQueue_start_undo_block(s)

InternalState_close_undo_block(s) == UndoQueue_close_undo_block(s)

(* The outcome of brush: which arm of the match ran, or the panic. *)
BrushOutcome(s, x, y, color) ==
    LET optional_image == Image_brush(UndoQueue_current(s), x, y, color)
    IN  CASE optional_image.tag = "Panic" -> "panic"
          [] optional_image.tag = "None"  -> "none"
          [] optional_image.tag = "Some"  -> "push"

(* InternalState::brush that pushes the unchanged image in the None arm. *)
InternalState_brush_pushes_none(s, x, y, color) ==
    LET image          == UndoQueue_current(s)
        optional_image == Image_brush(image, x, y, color)
    IN  CASE optional_image.tag = "Panic" -> s
          [] optional_image.tag = "None"  -> UndoQueue_push(s, image)
          [] optional_image.tag = "Some"  -> UndoQueue_push(s, optional_image.image)

InternalState_brush(s, x, y, color) ==
    LET image          == UndoQueue_current(s)
        optional_image == Image_brush(image, x, y, color)
    IN  CASE optional_image.tag = "Panic" -> s
          [] optional_image.tag = "None"  -> s
          [] optional_image.tag = "Some"  -> UndoQueue_push(s, optional_image.image)

(***************************************************************************)
(* The session as a state machine. queue, index and mode are the fields of *)
(* the one UndoQueue<Image> the session owns. crashed records that a call  *)
(* panicked (an out-of-bounds cell index); a panic leaves the fields as    *)
(* they were and ends the run. The remaining variables are history         *)
(* variables: blk follows a stroke (start_undo_block, brushes,             *)
(* close_undo_block, undo), rt follows a brush / undo / redo round trip,   *)
(* created holds the width and height the constructor was given,           *)
(* blockEntry is the index of the entry the first push of the running      *)
(* block appended (-1 outside a block), and lin counts the calls so far    *)
(* while every one of them was a brush that pushed in Normal mode (-1      *)
(* once another call was made).                                            *)
(***************************************************************************)
VARIABLES queue, index, mode, crashed, blk, rt, created, blockEntry, lin

vars == <<queue, index, mode, crashed, blk, rt, created, blockEntry, lin>>

UQ == [queue |-> queue, index |-> index, mode |-> mode]

SetUQ(s) ==
    /\ queue' = s.queue
    /\ index' = s.index
    /\ mode'  = s.mode

NoImage == [width |-> 0, height |-> 0, cells |-> << >>]

BlkIdle ==
    [phase |-> "idle", c0 |-> 0, pre |-> NoImage, n |-> 0, lastv |-> NoImage,
     nochange |-> FALSE, q0 |-> << >>]

RtIdle == [phase |-> "idle", before |-> << >>, after |-> << >>, tail |-> 0]

(* The dimensions a caller passes to the constructor, 0 included: every    *)
(* width and height whose grid, with the one entry of a new history, is    *)
(* within MaxSize.                                                         *)
Widths == 0..(MaxSize - 1)

Heights == 0..(MaxSize - 1)

Init ==
    \E width \in Widths, height \in Heights :
        LET s == InternalState_new(width, height)
        IN  /\ width * height + 1 <= MaxSize
            /\ queue = s.queue
            /\ index = s.index
            /\ mode = s.mode
            /\ crashed = FALSE
            /\ blk = BlkIdle
            /\ rt = RtIdle
            /\ created = [width |-> width, height |-> height]
            /\ blockEntry = -1
            /\ lin = 0

(* History of a stroke: opened by start_undo_block in Normal mode; counts  *)
(* the brushes of the stroke that pushed (n, up to MaxStrokePushes) and    *)
(* notes whether one changed nothing; closed by close_undo_block after at  *)
(* least one push, and then followed by one undo. c0 and pre are the       *)
(* cursor and the current image when the stroke was opened, lastv the      *)
(* image of the last push, q0 the whole queue when the stroke was opened,  *)
(* kept until the first push. A stroke closed without a push is            *)
(* "closed_empty". start_undo_block called in InBlock mode is "restarted", *)
(* and "reappended" after the push that follows it at once. Any other call *)
(* in between ends the history.                                            *)
BlkAfter(op, out, s, pushed) ==
    CASE op = "start" ->
            IF s.mode = "Normal"
            THEN [phase |-> "open", c0 |-> s.index, pre |-> UndoQueue_current(s),
                  n |-> 0, lastv |-> NoImage, nochange |-> FALSE, q0 |-> s.queue]
            ELSE IF s.mode = "InBlock"
            THEN [BlkIdle EXCEPT !.phase = "restarted", !.c0 = s.index,
                                 !.pre = UndoQueue_current(s)]
            ELSE BlkIdle
      [] op = "brush" /\ out = "push" ->
            IF blk.phase = "open"
            THEN [blk EXCEPT !.n = IF blk.n < MaxStrokePushes THEN blk.n + 1 ELSE blk.n,
                             !.lastv = pushed,
                             !.q0 = << >>]
            ELSE IF blk.phase = "restarted"
            THEN [blk EXCEPT !.phase = "reappended", !.lastv = pushed]
            ELSE BlkIdle
      [] op = "brush" /\ out = "none" ->
            IF blk.phase = "open" THEN [blk EXCEPT !.nochange = TRUE] ELSE BlkIdle
      [] op = "close" ->
            IF blk.phase = "open" /\ blk.n >= 1
            THEN [blk EXCEPT !.phase = "closed"]
            ELSE IF blk.phase = "open"
            THEN [blk EXCEPT !.phase = "closed_empty"]
            ELSE BlkIdle
      [] op = "undo" ->
            IF blk.phase = "closed"
            THEN [blk EXCEPT !.phase = "undone"]
            ELSE BlkIdle
      [] OTHER -> BlkIdle

(* History of a round trip: a brush that pushed in Normal mode, then undo, *)
(* then redo. before and after are the image bytes around the brush, tail  *)
(* the number of entries beyond the cursor when the brush was called. A    *)
(* second undo at cursor 0 instead of the redo, then a redo and a second   *)
(* redo at the newest entry, is the history of the two clamped calls.      *)
RtAfter(op, out, s, t) ==
    CASE op = "brush" /\ out = "push" /\ s.mode = "Normal" ->
            [phase |-> "pushed",
             before |-> Image_cells(InternalState_image(s)),
             after |-> Image_cells(InternalState_image(t)),
             tail |-> Len(s.queue) - 1 - s.index]
      [] op = "undo" /\ rt.phase = "pushed" -> [rt EXCEPT !.phase = "undone"]
      [] op = "redo" /\ rt.phase = "undone" -> [rt EXCEPT !.phase = "redone"]
      [] op = "undo" /\ rt.phase = "undone" /\ s.index = 0 ->
            [rt EXCEPT !.phase = "undo_clamped"]
      [] op = "redo" /\ rt.phase = "undo_clamped" ->
            [rt EXCEPT !.phase = "redone_after_clamp"]
      [] op = "redo" /\ rt.phase = "redone_after_clamp"
                     /\ s.index = Len(s.queue) - 1 ->
            [rt EXCEPT !.phase = "both_clamped"]
      [] OTHER -> RtIdle

(* The index of the entry the running block appended: set by the push in   *)
(* StartBlock mode, kept while the mode stays InBlock.                     *)
BlockEntryAfter(op, out, s, t) ==
    CASE op = "brush" /\ out = "push" /\ s.mode = "StartBlock" -> t.index
      [] t.mode = "InBlock" /\ s.mode = "InBlock" -> blockEntry
      [] OTHER -> -1

LinAfter(op, out, s) ==
    IF lin >= 0 /\ op = "brush" /\ out = "push" /\ s.mode = "Normal"
    THEN lin + 1
    ELSE -1

Step(op, out, t, pushed) ==
    /\ SetUQ(t)
    /\ crashed' = (out = "panic")
    /\ blk' = BlkAfter(op, out, UQ, pushed)
    /\ rt' = RtAfter(op, out, UQ, t)
    /\ created' = created
    /\ blockEntry' = BlockEntryAfter(op, out, UQ, t)
    /\ lin' = LinAfter(op, out, UQ)

(* InternalState::brush(x, y, color). A brush that would grow the history  *)
(* beyond MaxSize (cells plus entries) is not taken.                       *)
Brush(x, y, color) ==
    /\ ~crashed
    /\ LET t   == InternalState_brush(UQ, x, y, color)
           out == BrushOutcome(UQ, x, y, color)
           res == Image_brush(InternalState_image(UQ), x, y, color)
       IN  /\ Len(InternalState_image(UQ).cells) + Len(t.queue) <= MaxSize
           /\ Step("brush", out, t, IF out = "push" THEN res.image ELSE NoImage)

Undo ==
    /\ ~crashed
    /\ Step("undo", "ok", InternalState_undo(UQ), NoImage)

Redo ==
    /\ ~crashed
    /\ Step("redo", "ok", InternalState_redo(UQ), NoImage)

StartUndoBlock ==
    /\ ~crashed
    /\ Step("start", "ok", InternalState_start_undo_block(UQ), NoImage)

CloseUndoBlock ==
    /\ ~crashed
    /\ Step("close", "ok", InternalState_close_undo_block(UQ), NoImage)

(* The coordinates a caller passes: every cell of the grid, and the first  *)
(* column and row beyond it.                                               *)
Xs == 0..Image_width(InternalState_image(UQ))

Ys == 0..Image_height(InternalState_image(UQ))

Next ==
    \/ \E x \in Xs, y \in Ys, color \in Palette : Brush(x, y, color)
    \/ Undo
    \/ Redo
    \/ StartUndoBlock
    \/ CloseUndoBlock

Spec == Init /\ [][Next]_vars

(***************************************************************************)
(* Vocabulary of the properties.                                           *)
(***************************************************************************)
(* The grid is row-major: the cell at column x, row y.                     *)
InRange(img, x, y) == x < img.width /\ y < img.height

Cell(img, x, y) == img.cells[y * img.width + x + 1]

Current == UndoQueue_current(UQ)

(***************************************************************************)
(* C1. Stroke coalescing: a stroke opened in Normal mode at cursor c0,     *)
(* with at least one brush that pushed and no undo or redo inside, leaves  *)
(* after close_undo_block the cursor at c0 + 1, c0 + 2 entries and the     *)
(* last pushed image current; one undo then makes the image that was       *)
(* current before the stroke current again.                                *)
(***************************************************************************)
C1_StrokeCoalesced ==
    /\ blk.phase = "closed" =>
          /\ index = blk.c0 + 1
          /\ Len(queue) = blk.c0 + 2
          /\ Current = blk.lastv
    /\ blk.phase = "undone" =>
          /\ index = blk.c0
          /\ Current = blk.pre

C1_Witness ==
    /\ blk.phase = "undone"
    /\ blk.n >= 2
    /\ blk.c0 >= 1
    /\ Current = blk.pre
    /\ queue[index + 2] = blk.lastv

(***************************************************************************)
(* C2. The queue is never empty and the cursor is always a valid index of  *)
(* it, so current() is defined.                                            *)
(***************************************************************************)
C2_CursorValid ==
    /\ Len(queue) >= 1
    /\ 0 <= index
    /\ index < Len(queue)

C2_Witness ==
    /\ blk.phase = "undone"
    /\ Len(queue) >= 3
    /\ index = Len(queue) - 2

(***************************************************************************)
(* C3. Image::brush on an in-range cell returns None exactly when the cell *)
(* already has the colour; otherwise it returns an image of the same       *)
(* width and height whose cell at (x, y) has the colour and whose other    *)
(* cells are those of the source. Checked on the current image of every   *)
(* reachable state (every image of the history was current once).          *)
(***************************************************************************)
C3_SetPixel ==
    LET G == Current
    IN  \A x \in 0..(G.width - 1), y \in 0..(G.height - 1), color \in Palette :
                LET res == Image_brush(G, x, y, color)
                IN  /\ res.tag \in {"None", "Some"}
                    /\ res.tag = "None" <=> Cell(G, x, y) = RgbOf(color)
                    /\ res.tag = "Some" =>
                          /\ res.image.width = G.width
                          /\ res.image.height = G.height
                          /\ Len(res.image.cells) = Len(G.cells)
                          /\ Cell(res.image, x, y) = RgbOf(color)
                          /\ \A x2 \in 0..(G.width - 1), y2 \in 0..(G.height - 1) :
                                <<x2, y2>> # <<x, y>> =>
                                    Cell(res.image, x2, y2) = Cell(G, x2, y2)

C3_Witness ==
    /\ rt.phase = "pushed"
    /\ Len(Current.cells) >= 2
    /\ \E k \in 1..Len(Current.cells) : Current.cells[k] # DefaultRgb
    /\ \E k \in 1..Len(Current.cells) : Current.cells[k] = DefaultRgb

(***************************************************************************)
(* C4. Round trip: after a brush that pushed in Normal mode, the bytes of  *)
(* the image after the following undo are the bytes before the brush, and  *)
(* the bytes after the then following redo are the bytes right after it.   *)
(***************************************************************************)
C4_UndoRedoRoundTrip ==
    /\ rt.phase = "undone" => Image_cells(InternalState_image(UQ)) = rt.before
    /\ rt.phase = "redone" => Image_cells(InternalState_image(UQ)) = rt.after

C4_Witness ==
    /\ rt.phase = "redone"
    /\ Image_width(InternalState_image(UQ)) = 2
    /\ Image_height(InternalState_image(UQ)) = 1
    /\ rt.before = <<200, 200, 255, 200, 200, 255>>
    /\ rt.after = <<0, 0, 0, 200, 200, 255>>
    /\ Image_cells(InternalState_image(UQ)) = rt.after

(***************************************************************************)
(* C5. A brush that pushes in Normal or StartBlock mode leaves no entry    *)
(* beyond the cursor: the cursor is the last index, a redo changes         *)
(* nothing, and the current image is the one just pushed. Stated of the    *)
(* result of InternalState::brush in every reachable state, for every      *)
(* input.                                                                  *)
(***************************************************************************)
C5_PushClearsRedo ==
    (mode = "Normal" \/ mode = "StartBlock") =>
        \A x \in Xs, y \in Ys, color \in Palette :
            BrushOutcome(UQ, x, y, color) = "push" =>
                LET t == InternalState_brush(UQ, x, y, color)
                IN  /\ t.index = Len(t.queue) - 1
                    /\ UndoQueue_redo(t) = t
                    /\ UndoQueue_current(t) = Image_brush(Current, x, y, color).image
                    /\ UndoQueue_current(UndoQueue_redo(t)) =
                          Image_brush(Current, x, y, color).image

C5_Witness ==
    /\ rt.phase = "pushed"
    /\ rt.tail >= 1
    /\ index = Len(queue) - 1
    /\ Image_cells(Current) = rt.after

(***************************************************************************)
(* C6. After every brush that pushes, in whatever mode, no entry remains   *)
(* beyond the cursor.                                                      *)
(***************************************************************************)
C6_NoTailAfterAnyPush ==
    [][ \A x \in Xs, y \in Ys, color \in Palette :
            BrushOutcome(UQ, x, y, color) = "push" =>
                (Brush(x, y, color) => index' = Len(queue') - 1)
      ]_vars

(***************************************************************************)
(* C7. Clamping: undo at cursor 0 and redo at the last index return the    *)
(* state they were given (queue, cursor and mode); hence undo repeated at  *)
(* least cursor times ends at cursor 0 and redo repeated at least          *)
(* len - 1 - cursor times ends at the last index. Stated of the results of *)
(* undo and redo in every reachable state.                                 *)
(***************************************************************************)
RECURSIVE UndoTimes(_, _)
UndoTimes(q, k) == IF k = 0 THEN q ELSE UndoTimes(UndoQueue_undo(q), k - 1)

RECURSIVE RedoTimes(_, _)
RedoTimes(q, k) == IF k = 0 THEN q ELSE RedoTimes(UndoQueue_redo(q), k - 1)

C7_RepeatedEndsClamped ==
    /\ \A k \in index..MaxSize : UndoTimes(UQ, k).index = 0
    /\ \A k \in (Len(queue) - 1 - index)..MaxSize :
            RedoTimes(UQ, k).index = Len(queue) - 1

C7_Clamping ==
    /\ index = 0 => InternalState_undo(UQ) = UQ
    /\ index = Len(queue) - 1 => InternalState_redo(UQ) = UQ
    /\ C7_RepeatedEndsClamped

C7_Witness ==
    /\ rt.phase = "both_clamped"
    /\ Len(queue) >= 2
    /\ index = Len(queue) - 1
    /\ ~crashed

(***************************************************************************)
(* C8. A brush of the colour the target cell already has changes nothing   *)
(* of the session, in every mode: queue, cursor and mode stay as they are, *)
(* and a pending StartBlock stays pending. Stated of the result of         *)
(* InternalState::brush in every reachable state, for every input.         *)
(***************************************************************************)
C8_NoChangeAbsorbed ==
    \A x \in Xs, y \in Ys, color \in Palette :
        (InRange(Current, x, y) /\ Cell(Current, x, y) = RgbOf(color)) =>
            /\ BrushOutcome(UQ, x, y, color) = "none"
            /\ InternalState_brush(UQ, x, y, color) = UQ

C8_Witness ==
    /\ blk.phase = "open"
    /\ blk.nochange
    /\ blk.n = 0
    /\ mode = "StartBlock"
    /\ index = blk.c0
    /\ Len(queue) >= 2

(***************************************************************************)
(* C9. A brush with x >= width or y >= height is rejected: queue, cursor   *)
(* and mode stay as they are, whatever y * width + x is.                   *)
(***************************************************************************)
C9_OutOfRangeRejected ==
    [][ \A x \in Xs, y \in Ys, color \in Palette :
            ~InRange(Current, x, y) =>
                (Brush(x, y, color) => UNCHANGED <<queue, index, mode>>)
      ]_vars

(***************************************************************************)
(* C10. No session holds a grid of width 0 or height 0: the constructor    *)
(* fails for such dimensions, so no history is seeded with an empty grid.  *)
(***************************************************************************)
C10_ZeroDimensionRejected ==
    \A i \in 1..Len(queue) :
        /\ queue[i].width > 0
        /\ queue[i].height > 0
        /\ Len(queue[i].cells) > 0

(***************************************************************************)
(* C11. The bytes of the current image: on a width x height grid cells()   *)
(* returns exactly width * height * 3 bytes, and for every in-range (x, y) *)
(* the bytes at offsets 3 * (y * width + x), + 1 and + 2 are the r, g and  *)
(* b of the cell at (x, y). While the session holds only the grid it was   *)
(* created with, every triple is 200, 200, 255.                            *)
(***************************************************************************)
C11_ImageBytes ==
    LET bytes == Image_cells(InternalState_image(UQ))
        w     == Image_width(InternalState_image(UQ))
        h     == Image_height(InternalState_image(UQ))
    IN  /\ Len(bytes) = w * h * 3
        /\ \A x \in 0..(w - 1), y \in 0..(h - 1) :
               /\ bytes[3 * (y * w + x) + 1] = Cell(Current, x, y).r
               /\ bytes[3 * (y * w + x) + 2] = Cell(Current, x, y).g
               /\ bytes[3 * (y * w + x) + 3] = Cell(Current, x, y).b
        /\ lin = 0 =>
               \A k \in 0..(w * h - 1) :
                   /\ bytes[3 * k + 1] = 200
                   /\ bytes[3 * k + 2] = 200
                   /\ bytes[3 * k + 3] = 255

(* A 1 x 2 grid whose cell (0, 1) was just painted black. *)
C11_Witness ==
    /\ rt.phase = "pushed"
    /\ Image_width(Current) = 1
    /\ Image_height(Current) = 2
    /\ Image_cells(Current) = <<200, 200, 255, 0, 0, 0>>

(***************************************************************************)
(* C12. Dimensions never change: every image in the history has the width  *)
(* and the height the session was created with, and width * height cells;  *)
(* width() and height() return the created values in every state.          *)
(***************************************************************************)
C12_DimensionsFixed ==
    /\ \A i \in 1..Len(queue) :
           /\ queue[i].width = created.width
           /\ queue[i].height = created.height
           /\ Len(queue[i].cells) = created.width * created.height
    /\ Image_width(InternalState_image(UQ)) = created.width
    /\ Image_height(InternalState_image(UQ)) = created.height

(* A 1 x 2 session with three images in its history. *)
C12_Witness ==
    /\ created = [width |-> 1, height |-> 2]
    /\ Len(queue) = 3
    /\ index = 2
    /\ queue[1] # queue[2]
    /\ queue[2] # queue[3]

(***************************************************************************)
(* C13. Pushes inside a block modify only the entry the block's first push *)
(* appended: while the mode is InBlock, whatever pushes, undos and redos   *)
(* are made, every other entry of the queue, and so every entry that       *)
(* existed when start_undo_block was called, keeps its value.              *)
(***************************************************************************)
C13_BlockTouchesOnlyItsEntry ==
    [][ (mode = "InBlock" /\ mode' = "InBlock") =>
            \A i \in 1..Len(queue) :
                i # blockEntry + 1 =>
                    /\ i <= Len(queue')
                    /\ queue'[i] = queue[i]
      ]_vars

(***************************************************************************)
(* C14. The history never records an edit that changed nothing: in every   *)
(* state no entry at an index i >= 1 equals the entry at index i - 1.      *)
(***************************************************************************)
C14_NoEqualNeighbours ==
    \A i \in 2..Len(queue) : queue[i] # queue[i - 1]

(***************************************************************************)
(* C15. A push in Normal mode from queue E and cursor c gives E[0..c]      *)
(* followed by the pushed image (length c + 2), cursor c + 1, mode Normal: *)
(* stated for the push of every brush that changes the current image. So   *)
(* after N calls since new, every one a push in Normal mode, the cursor is *)
(* N and the queue holds N + 1 entries.                                    *)
(***************************************************************************)
C15_NormalPush ==
    /\ mode = "Normal" =>
           \A x \in Xs, y \in Ys, color \in Palette :
               LET optional_image == Image_brush(Current, x, y, color)
                   t              == InternalState_brush(UQ, x, y, color)
               IN  optional_image.tag = "Some" =>
                       /\ t.queue = SubSeq(queue, 1, index + 1) \o <<optional_image.image>>
                       /\ Len(t.queue) = index + 2
                       /\ t.index = index + 1
                       /\ t.mode = "Normal"
    /\ lin >= 0 =>
           /\ index = lin
           /\ Len(queue) = lin + 1
           /\ mode = "Normal"

(* Three pushes in Normal mode, and nothing else, since new. *)
C15_Witness ==
    /\ lin = 3
    /\ index = 3
    /\ Len(queue) = 4
    /\ mode = "Normal"

(***************************************************************************)
(* C16. A push in InBlock mode replaces the entry at the cursor with the   *)
(* pushed image and changes nothing else: the length of the queue, the     *)
(* cursor, the mode and every entry at another index stay as they were.    *)
(***************************************************************************)
C16_InBlockPush ==
    mode = "InBlock" =>
        \A x \in Xs, y \in Ys, color \in Palette :
            LET optional_image == Image_brush(Current, x, y, color)
                t              == InternalState_brush(UQ, x, y, color)
            IN  optional_image.tag = "Some" =>
                    /\ t.queue[index + 1] = optional_image.image
                    /\ Len(t.queue) = Len(queue)
                    /\ t.index = index
                    /\ t.mode = "InBlock"
                    /\ \A i \in 1..Len(queue) :
                           i # index + 1 => t.queue[i] = queue[i]

(* The second push of a stroke has overwritten the stroke's entry, and an  *)
(* entry older than the stroke is still there.                             *)
C16_Witness ==
    /\ blk.phase = "open"
    /\ blk.n = 2
    /\ mode = "InBlock"
    /\ index = blk.c0 + 1
    /\ Len(queue) = blk.c0 + 2
    /\ blk.c0 >= 1
    /\ Current = blk.lastv

(***************************************************************************)
(* C17. The modes of the queue. A new session is in Normal mode. A push in *)
(* Normal mode stays in Normal; a push in StartBlock mode changes queue    *)
(* and cursor as a push in Normal mode would and enters InBlock; a push in *)
(* InBlock mode stays in InBlock. No call but a push in StartBlock mode    *)
(* enters InBlock, and no call but close_undo_block takes StartBlock or    *)
(* InBlock to Normal.                                                      *)
(***************************************************************************)
C17_ModeTransitions ==
    /\ lin = 0 => mode = "Normal"
    /\ \A x \in Xs, y \in Ys, color \in Palette :
           LET optional_image == Image_brush(Current, x, y, color)
               t              == InternalState_brush(UQ, x, y, color)
           IN  IF optional_image.tag = "Some"
               THEN /\ mode = "Normal" => t.mode = "Normal"
                    /\ mode = "InBlock" => t.mode = "InBlock"
                    /\ mode = "StartBlock" =>
                           LET n == UndoQueue_push([UQ EXCEPT !.mode = "Normal"],
                                                   optional_image.image)
                           IN  /\ t.mode = "InBlock"
                               /\ t.queue = n.queue
                               /\ t.index = n.index
               ELSE t.mode = mode
    /\ InternalState_undo(UQ).mode = mode
    /\ InternalState_redo(UQ).mode = mode
    /\ InternalState_start_undo_block(UQ).mode # "InBlock"
    /\ InternalState_close_undo_block(UQ).mode # "InBlock"
    /\ mode # "Normal" => InternalState_start_undo_block(UQ).mode # "Normal"

(* The first push of a block opened at a cursor c0 >= 1 has just taken     *)
(* StartBlock to InBlock and appended the block's entry at c0 + 1.         *)
C17_Witness ==
    /\ mode = "InBlock"
    /\ blk.phase = "open"
    /\ blk.n = 1
    /\ blockEntry = index
    /\ blk.c0 >= 1
    /\ index = blk.c0 + 1
    /\ Len(queue) = index + 1

(***************************************************************************)
(* C18. start_undo_block sets the mode to StartBlock and close_undo_block  *)
(* sets it to Normal, from every mode, and both leave queue and cursor as  *)
(* they are. Closing twice is closing once. After start_undo_block in      *)
(* InBlock mode the next push appends a new entry and does not overwrite.  *)
(***************************************************************************)
C18_StartAndClose ==
    LET s == InternalState_start_undo_block(UQ)
        c == InternalState_close_undo_block(UQ)
    IN  /\ s.mode = "StartBlock"
        /\ s.queue = queue
        /\ s.index = index
        /\ c.mode = "Normal"
        /\ c.queue = queue
        /\ c.index = index
        /\ InternalState_close_undo_block(c) = c
        /\ mode = "InBlock" =>
               \A x \in Xs, y \in Ys, color \in Palette :
                   LET optional_image == Image_brush(UndoQueue_current(s), x, y, color)
                       t              == InternalState_brush(s, x, y, color)
                   IN  optional_image.tag = "Some" =>
                           /\ t.index = index + 1
                           /\ Len(t.queue) = index + 2
                           /\ t.queue[index + 2] = optional_image.image
                           /\ \A i \in 1..(index + 1) : t.queue[i] = queue[i]
        /\ blk.phase = "reappended" =>
               /\ index = blk.c0 + 1
               /\ Len(queue) = blk.c0 + 2
               /\ queue[blk.c0 + 1] = blk.pre
               /\ Current = blk.lastv
               /\ mode = "InBlock"

(* start_undo_block was called in InBlock mode and the push after it       *)
(* appended a third entry.                                                 *)
C18_Witness ==
    /\ blk.phase = "reappended"
    /\ blk.c0 = 1
    /\ index = 2
    /\ Len(queue) = 3
    /\ queue[2] = blk.pre
    /\ queue[3] # queue[2]

(***************************************************************************)
(* C19. undo and redo change nothing but the cursor, and that by one       *)
(* position or, at the ends, not at all: the mode, the length of the queue *)
(* and every entry stay as they were, and the new cursor is the same       *)
(* whatever the mode is.                                                   *)
(***************************************************************************)
C19_UndoRedoFrame ==
    LET u == InternalState_undo(UQ)
        r == InternalState_redo(UQ)
    IN  /\ u.queue = queue
        /\ u.mode = mode
        /\ u.index = (IF index >= 1 THEN index - 1 ELSE index)
        /\ r.queue = queue
        /\ r.mode = mode
        /\ r.index = (IF index < Len(queue) - 1 THEN index + 1 ELSE index)
        /\ \A m \in Mode :
               /\ InternalState_undo([UQ EXCEPT !.mode = m]).index = u.index
               /\ InternalState_redo([UQ EXCEPT !.mode = m]).index = r.index

(* An undo inside a block: the mode is still InBlock and the cursor is     *)
(* below the block's entry.                                                *)
C19_Witness ==
    /\ mode = "InBlock"
    /\ blockEntry >= 1
    /\ index = blockEntry - 1
    /\ Len(queue) = blockEntry + 1

(***************************************************************************)
(* C20. A stroke that changes nothing adds no entry. start_undo_block,     *)
(* then any number of brushes that change nothing, then close_undo_block   *)
(* leave queue and cursor as they were before the stroke, in Normal mode.  *)
(* The brushes that change nothing leave the mode at StartBlock, so the    *)
(* first brush of the stroke that changes the image is the one that        *)
(* appends the stroke's entry.                                             *)
(***************************************************************************)
C20_EmptyStroke ==
    LET s == InternalState_start_undo_block(UQ)
        c == InternalState_close_undo_block(s)
    IN  /\ c.queue = queue
        /\ c.index = index
        /\ c.mode = "Normal"
        /\ \A x \in Xs, y \in Ys, color \in Palette :
               LET optional_image == Image_brush(UndoQueue_current(s), x, y, color)
                   t              == InternalState_brush(s, x, y, color)
               IN  /\ optional_image.tag = "None" => t = s
                   /\ optional_image.tag = "Some" =>
                          /\ t.queue = SubSeq(queue, 1, index + 1) \o <<optional_image.image>>
                          /\ t.index = index + 1
                          /\ t.mode = "InBlock"
        /\ (blk.phase = "open" /\ blk.n = 0) =>
               /\ queue = blk.q0
               /\ index = blk.c0
               /\ mode = "StartBlock"
        /\ blk.phase = "closed_empty" =>
               /\ queue = blk.q0
               /\ index = blk.c0
               /\ mode = "Normal"

(* A stroke with a brush that changed nothing was closed, on a history     *)
(* with an entry after the cursor.                                         *)
C20_Witness ==
    /\ blk.phase = "closed_empty"
    /\ blk.nochange
    /\ Len(queue) >= 2
    /\ index < Len(queue) - 1

====
